---- MODULE Spec2Model ----
(***************************************************************************)
(* Model of window-counter.py: counting genomic features in fixed-size,    *)
(* non-overlapping windows per chromosome, its embedded self-test and the  *)
(* command-line entry point.                                               *)
(*                                                                         *)
(* A DataFrame is a sequence of rows (records).  A Python dict is a        *)
(* sequence of [chrom, length] entries with unique keys, kept in insertion *)
(* order.  A chromosome name is the sequence of the code points of its     *)
(* characters, so that sorted() compares names as Python compares str.     *)
(***************************************************************************)
EXTENDS Integers, Sequences, FiniteSets

VARIABLES pc, args, fs, fs0, coordinates_df, chr_lengths, results, calls

vars == <<pc, args, fs, fs0, coordinates_df, chr_lengths, results, calls>>

(* ---------------------------- bounds ----------------------------------- *)
MaxLen == 3
MaxW == 2
MaxFeatures == 2

(* ------------------------- chromosome names ---------------------------- *)
Chr10 == <<67, 104, 114, 49, 48>>
Chr2 == <<67, 104, 114, 50>>
Chr6 == <<67, 104, 114, 54>>
Chr7 == <<67, 104, 114, 55>>

Names == {Chr10, Chr2}

None == "None"
NoFile == "NoFile"

(* ----------------------- Python integer arithmetic --------------------- *)
\* a // b for b # 0: the floor of the quotient, whatever the signs
PyFloorDiv(a, b) == IF b > 0 THEN a \div b ELSE (0 - a) \div (0 - b)

\* a % b for b # 0: the remainder has the sign of the divisor
PyMod(a, b) == a - b * PyFloorDiv(a, b)

(* ------------------------------ str and dict --------------------------- *)
RECURSIVE LexLess(_, _)
LexLess(a, b) ==
    IF a = <<>> THEN b # <<>>
    ELSE IF b = <<>> THEN FALSE
    ELSE IF Head(a) = Head(b) THEN LexLess(Tail(a), Tail(b))
    ELSE Head(a) < Head(b)

RECURSIVE SortedInsert(_, _)
SortedInsert(x, s) ==
    IF s = <<>> THEN <<x>>
    ELSE IF LexLess(x, Head(s)) THEN <<x>> \o s
    ELSE <<Head(s)>> \o SortedInsert(x, Tail(s))

RECURSIVE PySorted(_)
PySorted(s) == IF s = <<>> THEN <<>> ELSE SortedInsert(Head(s), PySorted(Tail(s)))

dict_keys(d) == [i \in 1..Len(d) |-> d[i].chrom]

dict_has(d, k) == \E i \in 1..Len(d) : d[i].chrom = k

dict_get(d, k) == d[CHOOSE i \in 1..Len(d) : d[i].chrom = k].length

\* d[k] = v: an existing key keeps its place, a new key goes last
dict_set(d, k, v) ==
    IF dict_has(d, k)
    THEN [i \in 1..Len(d) |-> IF d[i].chrom = k THEN [chrom |-> k, length |-> v] ELSE d[i]]
    ELSE Append(d, [chrom |-> k, length |-> v])

(* ------------------------------ parsing -------------------------------- *)
\* a line of the coordinate file, split on whitespace
parse_coordinates(lines) ==
    [i \in 1..Len(lines) |->
        [chromosome |-> lines[i][1], start |-> lines[i][2], end |-> lines[i][3],
         id |-> lines[i][4], type |-> lines[i][5]]]

RECURSIVE parse_chr_lengths_from(_, _)
parse_chr_lengths_from(d, lines) ==
    IF lines = <<>> THEN d
    ELSE parse_chr_lengths_from(dict_set(d, Head(lines)[1], Head(lines)[2]), Tail(lines))

parse_chr_lengths(lines) == parse_chr_lengths_from(<<>>, lines)

(* ------------------------ count_features_in_windows -------------------- *)
sorted_keys_unsorted(d) == dict_keys(d)

sorted_keys(d) == PySorted(dict_keys(d))

chrom_data_unfiltered(df, chrom) == df

chrom_data(df, chrom) == SelectSeq(df, LAMBDA r : r.chromosome = chrom)

num_full_windows_ceil(chr_length, window_size) ==
    PyFloorDiv(chr_length + window_size - 1, window_size)

num_full_windows(chr_length, window_size) == PyFloorDiv(chr_length, window_size)

remaining_bases(chr_length, window_size) == PyMod(chr_length, window_size)

count_in_window_closed(data, window_start, window_end) ==
    Len(SelectSeq(data, LAMBDA r : r.start >= window_start /\ r.start <= window_end))

count_in_window_open(data, window_start, window_end) ==
    Len(SelectSeq(data, LAMBDA r : r.start > window_start /\ r.start < window_end))

count_in_window(data, window_start, window_end) ==
    Len(SelectSeq(data, LAMBDA r : r.start >= window_start /\ r.start < window_end))

full_windows(chrom, data, chr_length, window_size) ==
    [k \in 1..num_full_windows(chr_length, window_size) |->
        [chromosome |-> chrom,
         window_start |-> (k - 1) * window_size,
         window_end |-> k * window_size,
         feature_count |-> count_in_window(data, (k - 1) * window_size, k * window_size)]]

partial_window_overrun(chrom, data, chr_length, window_size) ==
    IF remaining_bases(chr_length, window_size) > 0
    THEN LET window_start == num_full_windows(chr_length, window_size) * window_size
             window_end == window_start + window_size
         IN  <<[chromosome |-> chrom, window_start |-> window_start,
                window_end |-> window_end,
                feature_count |-> count_in_window(data, window_start, window_end)]>>
    ELSE <<>>

partial_window(chrom, data, chr_length, window_size) ==
    IF remaining_bases(chr_length, window_size) > 0
    THEN LET window_start == num_full_windows(chr_length, window_size) * window_size
             window_end == chr_length
         IN  <<[chromosome |-> chrom, window_start |-> window_start,
                window_end |-> window_end,
                feature_count |-> count_in_window(data, window_start, window_end)]>>
    ELSE <<>>

chrom_windows(df, d, chrom, window_size) ==
    LET chr_length == dict_get(d, chrom)
        data == chrom_data(df, chrom)
    IN  full_windows(chrom, data, chr_length, window_size)
            \o partial_window(chrom, data, chr_length, window_size)

RECURSIVE windows_of_chroms(_, _, _, _)
windows_of_chroms(df, d, chroms, window_size) ==
    IF chroms = <<>> THEN <<>>
    ELSE chrom_windows(df, d, Head(chroms), window_size)
            \o windows_of_chroms(df, d, Tail(chroms), window_size)

\* chr_length // window_size raises ZeroDivisionError in the first iteration
count_raises(d, window_size) == window_size = 0 /\ d # <<>>

count_features_in_windows(df, d, window_size) ==
    windows_of_chroms(df, d, sorted_keys(d), window_size)

(* --------------------------- test_window_counting ---------------------- *)
test_data ==
    << <<Chr6, 1000, 2000, "ID1", "TYPE1">>,
       <<Chr6, 2500, 3500, "ID2", "TYPE1">>,
       <<Chr6, 9500, 11000, "ID3", "TYPE1">>,
       <<Chr6, 9750, 10500, "ID4", "TYPE1">>,
       <<Chr6, 15000, 16000, "ID5", "TYPE1">>,
       <<Chr7, 500, 1500, "ID6", "TYPE1">>,
       <<Chr7, 11000, 12000, "ID7", "TYPE1">> >>

test_chr_lengths == <<[chrom |-> Chr6, length |-> 20000], [chrom |-> Chr7, length |-> 15000]>>

test_window_size == 10000

test_chr_lengths_lines == [i \in 1..Len(test_chr_lengths) |->
                              <<test_chr_lengths[i].chrom, test_chr_lengths[i].length>>]

\* the rows the second assertion ranges over
exceeds_check_rows(res, chrom) == res

\* the verification loop over chr_lengths.items(): how it ends
RECURSIVE verify_results(_, _)
verify_results(res, items) ==
    IF items = <<>> THEN "passed"
    ELSE LET chrom == Head(items).chrom
             length == Head(items).length
             chr_results == SelectSeq(res, LAMBDA r : r.chromosome = chrom)
             checked == exceeds_check_rows(res, chrom)
         IN  IF chr_results = <<>> THEN "IndexError"
             ELSE IF chr_results[Len(chr_results)].window_end # length THEN "AssertionError"
             ELSE IF ~(\A i \in 1..Len(checked) : checked[i].window_end <= length)
                  THEN "AssertionError"
             ELSE verify_results(res, Tail(items))

test_window_counting ==
    LET fs1 == [fs EXCEPT !["test_coords.txt"] = test_data]
        fs2 == [fs1 EXCEPT !["test_chr_lengths.txt"] = test_chr_lengths_lines]
        coords_df == parse_coordinates(fs2["test_coords.txt"])
        res == count_features_in_windows(coords_df, test_chr_lengths, test_window_size)
        outcome == verify_results(res, test_chr_lengths)
    IN  /\ coordinates_df' = coords_df
        /\ chr_lengths' = test_chr_lengths
        /\ results' = res
        /\ calls' = calls \cup {"test_window_counting", "parse_coordinates",
                                "count_features_in_windows"}
        /\ IF outcome = "passed"
           THEN /\ fs' = [fs2 EXCEPT !["test_coords.txt"] = NoFile,
                                     !["test_chr_lengths.txt"] = NoFile]
                /\ pc' = "done"
           ELSE /\ fs' = fs2
                /\ pc' = outcome

(* ----------------------------------- main ------------------------------ *)
FileNames == {"test_coords.txt", "test_chr_lengths.txt", "window_counts.tsv"}

UserData == "user data"

\* what the working directory holds before the run
InitialFileSystems ==
    {[f \in FileNames |-> IF f \in pre THEN UserData ELSE NoFile] :
        pre \in {{}, {"test_coords.txt"}, {"window_counts.tsv"}}}

WindowSizes == (0 - MaxW)..MaxW

Lengths == 0..MaxLen

Starts == (0 - 1)..MaxLen

CoordinateLines == {<<c, s, s + MaxLen, "ID", "TYPE1">> : c \in Names, s \in Starts}

CoordinateFiles == {<<>>} \cup {<<l>> : l \in CoordinateLines}

LengthLines == {<<c, l>> : c \in Names, l \in Lengths}

LengthFiles == UNION {[1..n -> LengthLines] : n \in 0..Cardinality(Names)}

missing_args_both(a) == a.input_file = None /\ a.chr_lengths = None

missing_args(a) == a.input_file = None \/ a.chr_lengths = None

Init ==
    /\ pc = "main"
    /\ args \in [test : BOOLEAN, input_file : {None, "coords.txt"},
                 chr_lengths : {None, "lengths.txt"}, window_size : WindowSizes,
                 output : {"window_counts.tsv"}]
    /\ fs \in InitialFileSystems
    /\ fs0 = fs
    /\ coordinates_df = <<>>
    /\ chr_lengths = <<>>
    /\ results = <<>>
    /\ calls = {}

MainTest ==
    /\ pc = "main"
    /\ args.test
    /\ test_window_counting
    /\ UNCHANGED <<args, fs0>>

MainArgError ==
    /\ pc = "main"
    /\ ~args.test
    /\ missing_args(args)
    /\ pc' = "parser_error"
    /\ UNCHANGED <<args, fs, fs0, coordinates_df, chr_lengths, results, calls>>

MainParseCoordinates ==
    /\ pc = "main"
    /\ ~args.test
    /\ ~missing_args(args)
    /\ \E lines \in CoordinateFiles : coordinates_df' = parse_coordinates(lines)
    /\ calls' = calls \cup {"parse_coordinates"}
    /\ pc' = "parsed_coordinates"
    /\ UNCHANGED <<args, fs, fs0, chr_lengths, results>>

MainParseChrLengths ==
    /\ pc = "parsed_coordinates"
    /\ \E lines \in LengthFiles : chr_lengths' = parse_chr_lengths(lines)
    /\ calls' = calls \cup {"parse_chr_lengths"}
    /\ pc' = "parsed_chr_lengths"
    /\ UNCHANGED <<args, fs, fs0, coordinates_df, results>>

MainCount ==
    /\ pc = "parsed_chr_lengths"
    /\ calls' = calls \cup {"count_features_in_windows"}
    /\ IF count_raises(chr_lengths, args.window_size)
       THEN /\ pc' = "ZeroDivisionError"
            /\ UNCHANGED results
       ELSE /\ results' = count_features_in_windows(coordinates_df, chr_lengths,
                                                    args.window_size)
            /\ pc' = "counted"
    /\ UNCHANGED <<args, fs, fs0, coordinates_df, chr_lengths>>

MainSave ==
    /\ pc = "counted"
    /\ fs' = [fs EXCEPT ![args.output] = results]
    /\ calls' = calls \cup {"to_csv"}
    /\ pc' = "done"
    /\ UNCHANGED <<args, fs0, coordinates_df, chr_lengths, results>>

Next ==
    \/ MainTest
    \/ MainArgError
    \/ MainParseCoordinates
    \/ MainParseChrLengths
    \/ MainCount
    \/ MainSave

Spec == Init /\ [][Next]_vars

(* ------------- count_features_in_windows called on its own ------------- *)
FeatureRows == {[chromosome |-> c, start |-> s, end |-> s + MaxLen, id |-> "ID", type |-> "TYPE1"] :
                    c \in Names, s \in Starts}

\* rows whose end is anywhere from the start on
SpanRows == {[chromosome |-> c, start |-> s, end |-> s + n, id |-> "ID", type |-> "TYPE1"] :
                 c \in Names, s \in Starts, n \in 0..MaxLen}

Tables == UNION {[1..n -> FeatureRows] : n \in 0..MaxFeatures} \cup {<<r>> : r \in SpanRows}

\* every dict over Names: unique keys, any insertion order
Dicts == {d \in UNION {[1..n -> [chrom : Names, length : Lengths]] :
                          n \in 0..Cardinality(Names)} :
             \A i, j \in 1..Len(d) : d[i].chrom = d[j].chrom => i = j}

CoreArgs(w) == [test |-> FALSE, input_file |-> None, chr_lengths |-> None,
                window_size |-> w, output |-> "window_counts.tsv"]

InitCore ==
    /\ pc = "call"
    /\ fs = [f \in FileNames |-> NoFile]
    /\ fs0 = fs
    /\ results = <<>>
    /\ calls = {}
    /\ \/ /\ args \in {CoreArgs(w) : w \in 1..MaxW}
          /\ coordinates_df \in Tables
          /\ chr_lengths \in Dicts
       \/ /\ args = CoreArgs(test_window_size)
          /\ coordinates_df = parse_coordinates(test_data)
          /\ chr_lengths = test_chr_lengths

CallCount ==
    /\ pc = "call"
    /\ results' = count_features_in_windows(coordinates_df, chr_lengths, args.window_size)
    /\ calls' = calls \cup {"count_features_in_windows"}
    /\ pc' = "returned"
    /\ UNCHANGED <<args, fs, fs0, coordinates_df, chr_lengths>>

NextCore == CallCount

SpecCore == InitCore /\ [][NextCore]_vars

(* ======================= properties of the window counter ============== *)
Returned == pc = "returned"

W == args.window_size

\* the rows emitted for one chromosome, in emission order
WindowsOf(c) == SelectSeq(results, LAMBDA r : r.chromosome = c)

Width(r) == r.window_end - r.window_start

FeaturesOf(c) == {i \in 1..Len(coordinates_df) : coordinates_df[i].chromosome = c}

RECURSIVE SumCounts(_)
SumCounts(ws) == IF ws = <<>> THEN 0 ELSE Head(ws).feature_count + SumCounts(Tail(ws))

\* ceil(l / w) for l >= 0 and w > 0
CeilDiv(l, w) == CHOOSE n \in 0..l : n * w >= l /\ (n = 0 \/ (n - 1) * w < l)

\* C1: for a chromosome of length L >= 1 and W >= 1, the emitted windows tile
\* [0, L): the first starts at 0, each ends where the next starts, none is
\* empty, the last ends at L and no window_end exceeds L.
C1_WindowsTileChromosome ==
    Returned =>
        \A e \in 1..Len(chr_lengths) :
            LET L == chr_lengths[e].length
                ws == WindowsOf(chr_lengths[e].chrom)
            IN  (L >= 1 /\ W >= 1) =>
                    /\ ws # <<>>
                    /\ ws[1].window_start = 0
                    /\ \A j \in 1..(Len(ws) - 1) : ws[j].window_end = ws[j + 1].window_start
                    /\ \A j \in 1..Len(ws) : ws[j].window_start < ws[j].window_end
                    /\ \A j \in 1..Len(ws) : ws[j].window_end <= L
                    /\ ws[Len(ws)].window_end = L

C1_Witness ==
    /\ Returned
    /\ W = 2
    /\ \E e \in 1..Len(chr_lengths) :
          /\ chr_lengths[e].length = 3
          /\ Len(WindowsOf(chr_lengths[e].chrom)) = 2

\* C2: for L >= 0 and W > 0 the chromosome gets ceil(L / W) windows: L div W
\* of width W, then one of width L mod W (< W) exactly when L mod W > 0;
\* L < W gives the single window [0, L) and L = 0 gives none.
C2_WindowCountIsCeil ==
    Returned =>
        \A e \in 1..Len(chr_lengths) :
            LET L == chr_lengths[e].length
                ws == WindowsOf(chr_lengths[e].chrom)
                q == L \div W
                m == L % W
            IN  (L >= 0 /\ W > 0) =>
                    /\ Len(ws) = CeilDiv(L, W)
                    /\ Len(ws) = q + (IF m > 0 THEN 1 ELSE 0)
                    /\ \A j \in 1..q : j <= Len(ws) /\ Width(ws[j]) = W
                    /\ m > 0 => (Width(ws[Len(ws)]) = m /\ m < W)
                    /\ (0 < L /\ L < W) =>
                          (Len(ws) = 1 /\ ws[1].window_start = 0 /\ ws[1].window_end = L)
                    /\ L = 0 => ws = <<>>

C2_Witness ==
    /\ Returned
    /\ W = 2
    /\ \E e \in 1..Len(chr_lengths) :
          chr_lengths[e].length = 2 /\ Len(WindowsOf(chr_lengths[e].chrom)) = 1
    /\ \E e \in 1..Len(chr_lengths) :
          chr_lengths[e].length = 1 /\ Len(WindowsOf(chr_lengths[e].chrom)) = 1

\* C3: for a chromosome c of the length map (length L >= 0) and W > 0, a row
\* of c with 0 <= start < L lies in exactly one emitted window of c and the
\* feature counts of c's windows add up to the number of such rows; a row of
\* c with start >= L or start < 0 lies in no window (and the call returns).
C3_InRangeFeaturesCountedOnce ==
    Returned =>
        \A e \in 1..Len(chr_lengths) :
            LET c == chr_lengths[e].chrom
                L == chr_lengths[e].length
                ws == WindowsOf(c)
                inrange == {i \in FeaturesOf(c) :
                               0 <= coordinates_df[i].start /\ coordinates_df[i].start < L}
                holding(i) == {j \in 1..Len(ws) :
                                  /\ ws[j].window_start <= coordinates_df[i].start
                                  /\ coordinates_df[i].start < ws[j].window_end}
            IN  W > 0 =>
                    /\ SumCounts(ws) = Cardinality(inrange)
                    /\ \A i \in FeaturesOf(c) :
                          Cardinality(holding(i)) = IF i \in inrange THEN 1 ELSE 0

C3_Witness ==
    /\ Returned
    /\ \E e \in 1..Len(chr_lengths) :
          LET c == chr_lengths[e].chrom
              L == chr_lengths[e].length
          IN  /\ SumCounts(WindowsOf(c)) = 1
              /\ \E i, k \in FeaturesOf(c) :
                    /\ coordinates_df[i].start >= 0 /\ coordinates_df[i].start < L
                    /\ coordinates_df[k].start >= L

\* the rows the embedded scenario is said to give
TestClaimed ==
    <<[chromosome |-> Chr6, window_start |-> 0, window_end |-> 10000, feature_count |-> 3],
      [chromosome |-> Chr6, window_start |-> 10000, window_end |-> 20000, feature_count |-> 2],
      [chromosome |-> Chr7, window_start |-> 0, window_end |-> 10000, feature_count |-> 1],
      [chromosome |-> Chr7, window_start |-> 10000, window_end |-> 15000, feature_count |-> 1]>>

\* four of the Chr6 starts (1000, 2500, 9500, 9750) are below 10000
TestExpected ==
    <<[chromosome |-> Chr6, window_start |-> 0, window_end |-> 10000, feature_count |-> 4],
      [chromosome |-> Chr6, window_start |-> 10000, window_end |-> 20000, feature_count |-> 1],
      [chromosome |-> Chr7, window_start |-> 0, window_end |-> 10000, feature_count |-> 1],
      [chromosome |-> Chr7, window_start |-> 10000, window_end |-> 15000, feature_count |-> 1]>>

IsTestScenario ==
    /\ coordinates_df = parse_coordinates(test_data)
    /\ chr_lengths = test_chr_lengths
    /\ W = test_window_size

\* every emitted window counts the rows of its chromosome that start in it
CountsAreStartsInWindow ==
    \A j \in 1..Len(results) :
        results[j].feature_count =
            Cardinality({i \in FeaturesOf(results[j].chromosome) :
                            /\ results[j].window_start <= coordinates_df[i].start
                            /\ coordinates_df[i].start < results[j].window_end})

\* a row starting on a window boundary k*W < L belongs to the window that
\* starts there, not to the one that ends there
BoundaryGoesToNextWindow ==
    \A e \in 1..Len(chr_lengths) :
        \A i \in FeaturesOf(chr_lengths[e].chrom) :
            LET s == coordinates_df[i].start
                ws == WindowsOf(chr_lengths[e].chrom)
                same == Cardinality({k \in FeaturesOf(chr_lengths[e].chrom) :
                                        coordinates_df[k].start = s})
            IN  (W > 0 /\ 0 <= s /\ s < chr_lengths[e].length /\ s % W = 0) =>
                    /\ \E j \in 1..Len(ws) :
                          ws[j].window_start = s /\ ws[j].feature_count >= same
                    /\ \A j \in 1..Len(ws) :
                          ws[j].window_end = s =>
                              ws[j].feature_count <=
                                  Cardinality(FeaturesOf(chr_lengths[e].chrom)) - same

\* C4 as claimed: the feature_count of an emitted window (c, s, e) is the
\* number of rows with chromosome c and s <= start < e, whatever their end; a
\* row whose start is a window boundary k*W < L is counted in the window that
\* starts there and not in the one that ends there; the embedded scenario
\* gives Chr6 [0,10000) 3, Chr6 [10000,20000) 2, Chr7 [0,10000) 1,
\* Chr7 [10000,15000) 1.
C4_Original ==
    Returned =>
        /\ CountsAreStartsInWindow
        /\ BoundaryGoesToNextWindow
        /\ IsTestScenario => results = TestClaimed

\* C4 amended: as claimed, except that the embedded scenario gives
\* Chr6 [0,10000) 4 and Chr6 [10000,20000) 1 (the Chr7 rows are as claimed).
C4_CountIsStartsInWindow ==
    Returned =>
        /\ CountsAreStartsInWindow
        /\ BoundaryGoesToNextWindow
        /\ IsTestScenario => results = TestExpected

C4_Witness ==
    /\ Returned
    /\ IsTestScenario
    /\ Len(results) = 4
    /\ results[1].feature_count = 4

\* C5: the returned rows are ordered by chromosome name, ascending as str
\* compares, and within a chromosome by strictly ascending window_start
\* (so the rows of one chromosome are consecutive), whatever the insertion
\* order of the length map and the order of the feature rows.
C5_OutputOrdered ==
    Returned =>
        \A i, j \in 1..Len(results) :
            i < j =>
                \/ LexLess(results[i].chromosome, results[j].chromosome)
                \/ /\ results[i].chromosome = results[j].chromosome
                   /\ results[i].window_start < results[j].window_start

C5_Witness ==
    /\ Returned
    /\ dict_keys(chr_lengths) = <<Chr2, Chr10>>
    /\ Len(WindowsOf(Chr2)) >= 2
    /\ Len(WindowsOf(Chr10)) >= 2
    /\ results[1].chromosome = Chr10

KnownRows == SelectSeq(coordinates_df, LAMBDA r : \E e \in 1..Len(chr_lengths) :
                                                     chr_lengths[e].chrom = r.chromosome)

\* C6: every output row's chromosome is a key of the length map, and rows of
\* the feature table whose chromosome is not a key change nothing: the output
\* equals the output for the table without them, and the call returns.
C6_UnknownChromosomesIgnored ==
    Returned =>
        /\ \A j \in 1..Len(results) :
              \E e \in 1..Len(chr_lengths) : chr_lengths[e].chrom = results[j].chromosome
        /\ results = count_features_in_windows(KnownRows, chr_lengths, W)

C6_Witness ==
    /\ Returned
    /\ KnownRows # coordinates_df
    /\ SumCounts(results) = 1
    /\ \E i \in 1..Len(coordinates_df) :
          /\ coordinates_df[i].start = 0
          /\ \A e \in 1..Len(chr_lengths) : chr_lengths[e].chrom # coordinates_df[i].chromosome

(* ============================ properties of main ======================= *)
\* C7: the self-test passes on its embedded scenario: every chromosome's last
\* window ends at its length, the assertion that no window exceeds the
\* chromosome length holds, and the run returns after 'All tests passed'.
C7_SelfTestPasses ==
    (args.test /\ pc # "main") =>
        /\ pc = "done"
        /\ \A e \in 1..Len(test_chr_lengths) :
              LET ws == WindowsOf(test_chr_lengths[e].chrom)
              IN  ws # <<>> /\ ws[Len(ws)].window_end = test_chr_lengths[e].length

\* C8: outside self-test mode with input_file or chr_lengths missing, main
\* only ever ends in the argument error and runs none of parse_coordinates,
\* parse_chr_lengths, count_features_in_windows or the output write; main
\* calls count_features_in_windows only after both inputs were parsed; in
\* self-test mode missing positional arguments give no argument error.
C8_NoCoreWithoutArguments ==
    /\ (~args.test /\ (args.input_file = None \/ args.chr_lengths = None)) =>
          /\ pc \in {"main", "parser_error"}
          /\ pc = "main" => ENABLED MainArgError
          /\ calls = {}
          /\ fs = fs0
    /\ (~args.test /\ "count_features_in_windows" \in calls) =>
          {"parse_coordinates", "parse_chr_lengths"} \subseteq calls
    /\ (~args.test /\ "to_csv" \in calls) => "count_features_in_windows" \in calls
    /\ args.test => pc # "parser_error"

C8_Witness ==
    /\ pc = "parser_error"
    /\ args.input_file # None
    /\ args.chr_lengths = None

\* C9: with a window size W <= 0 a run fails fast with a configuration error:
\* it neither returns or writes a window-count result nor divides by zero.
C9_NonPositiveWindowFailsFast ==
    (~args.test /\ W <= 0) => pc \notin {"counted", "done", "ZeroDivisionError"}

\* C10: however the self-test ends, its scratch files test_coords.txt and
\* test_chr_lengths.txt are gone and every file that existed before the run
\* is as it was.
C10_SelfTestLeavesFilesAsFound ==
    (args.test /\ pc # "main") =>
        /\ fs["test_coords.txt"] = NoFile
        /\ fs["test_chr_lengths.txt"] = NoFile
        /\ \A f \in FileNames : fs0[f] # NoFile => fs[f] = fs0[f]

====
